---- MODULE Spec2Model ----
(***************************************************************************)
(* A model of docullim: the annotation cache (docullim/cache.py), the      *)
(* per-file pipeline and the docstring rewriter (docullim/generator.py)    *)
(* and the command-line run (docullim/cli.py).                             *)
(*                                                                         *)
(* Source text is a sequence of lines.  A line is a record                 *)
(*   [ind, kind, name, mark, txt, cmt]                                     *)
(* ind  : indentation level                                                *)
(* kind : "def" | "class" (a definition header, with its decorator),       *)
(*        "expr" (an expression statement made of string literals),        *)
(*        "stmt" (any other simple statement), "cmt" (a comment line)      *)
(* name : the defined name, or the statement's / comment's text            *)
(* mark : "" (not decorated), "@" (@docullim), otherwise the tag of        *)
(*        @docullim("tag")                                                 *)
(* txt  : the characters of an "expr" line, over                           *)
(*        "q" (a double quote), "b" (a backslash), "d" (any other letter)  *)
(* cmt  : the trailing comment on the line ("" for none)                   *)
(***************************************************************************)
EXTENDS Integers, Sequences, FiniteSets, TLC

\* ------------------------------------------------------------ bounds
\* longest annotation text the generation call returns, in characters
MaxDocLen == 3
\* longest string handed to hash_source's callers in the key specification
MaxKeyLen == 2
\* most patterns on a command line
MaxPatterns == 2

\* ------------------------------------------------------------ lines
Chars == {"q", "b", "d"}

Line(ind, kind, name, mark, txt, cmt) ==
    [ind |-> ind, kind |-> kind, name |-> name, mark |-> mark, txt |-> txt, cmt |-> cmt]

DefLine(ind, kind, name, mark) == Line(ind, kind, name, mark, <<>>, "")
ExprLine(ind, txt, cmt) == Line(ind, "expr", "", "", txt, cmt)
StmtLine(ind, name) == Line(ind, "stmt", name, "", <<>>, "")
CmtLine(ind, name) == Line(ind, "cmt", name, "", <<>>, "")

\* ------------------------------------------------- string literals
\* The three double quotes that open and close a docstring.
Q3 == <<"q", "q", "q">>

IsQ3At(txt, p) ==
    /\ p + 2 <= Len(txt)
    /\ txt[p] = "q" /\ txt[p + 1] = "q" /\ txt[p + 2] = "q"

\* A backslash escape inside a literal: \" is a quote, \\ a backslash, and an
\* unrecognised escape such as \d keeps its backslash.
Unescape(c) == IF c = "d" THEN <<"b", "d">> ELSE <<c>>

ScanFail == [ok |-> FALSE, val |-> <<>>, next |-> 0]

\* The body of one literal from position p to its closing delimiter:
\* the decoded value and the position after the delimiter.
RECURSIVE ScanBody(_, _, _, _)
ScanBody(txt, p, triple, acc) ==
    IF p > Len(txt) THEN ScanFail
    ELSE IF txt[p] = "b"
    THEN IF p + 1 > Len(txt) THEN ScanFail
         ELSE ScanBody(txt, p + 2, triple, acc \o Unescape(txt[p + 1]))
    ELSE IF triple /\ IsQ3At(txt, p) THEN [ok |-> TRUE, val |-> acc, next |-> p + 3]
    ELSE IF ~triple /\ txt[p] = "q" THEN [ok |-> TRUE, val |-> acc, next |-> p + 1]
    ELSE ScanBody(txt, p + 1, triple, Append(acc, txt[p]))

\* The string literals of an expression line, left to right; ok is FALSE when
\* the line does not tokenize (a letter outside a literal, an unterminated one).
RECURSIVE ScanLiterals(_, _, _)
ScanLiterals(txt, p, vals) ==
    IF p > Len(txt) THEN [ok |-> vals # <<>>, vals |-> vals]
    ELSE IF txt[p] # "q" THEN [ok |-> FALSE, vals |-> <<>>]
    ELSE LET triple == IsQ3At(txt, p)
             r == ScanBody(txt, IF triple THEN p + 3 ELSE p + 1, triple, <<>>)
         IN  IF ~r.ok THEN [ok |-> FALSE, vals |-> <<>>]
             ELSE ScanLiterals(txt, r.next, Append(vals, r.val))

Literals(txt) == ScanLiterals(txt, 1, <<>>)

RECURSIVE Flatten(_)
Flatten(ss) == IF ss = <<>> THEN <<>> ELSE Head(ss) \o Flatten(Tail(ss))

\* The value of a string expression: adjacent literals concatenate.
StringValue(txt) == Flatten(Literals(txt).vals)

\* --------------------------------------------------- syntax trees
\* A node is [t, lead, name, mark, txt, cmt, body]: t is the line kind, lead the
\* comment lines above it (libcst's leading_lines), body the statements of a
\* definition's indented block.
Node(l, lead, body) ==
    [t |-> l.kind, lead |-> lead, name |-> l.name, mark |-> l.mark,
     txt |-> l.txt, cmt |-> l.cmt, body |-> body]

IsDefNode(n) == n.t \in {"def", "class"}

ParseFail == [ok |-> FALSE, body |-> <<>>, next |-> 0]

\* The first line at or after i that is not a comment line.
RECURSIVE SkipComments(_, _)
SkipComments(lines, i) ==
    IF i <= Len(lines) /\ lines[i].kind = "cmt" THEN SkipComments(lines, i + 1) ELSE i

\* The statements at indentation ind from line i on, up to the first line
\* indented less; comment lines left over are the caller's.
RECURSIVE ParseBlock(_, _, _)
ParseBlock(lines, i, ind) ==
    LET j == SkipComments(lines, i) IN
    IF j > Len(lines) \/ lines[j].ind < ind THEN [ok |-> TRUE, body |-> <<>>, next |-> i]
    ELSE IF lines[j].ind > ind THEN ParseFail
    ELSE LET l == lines[j]
             lead == SubSeq(lines, i, j - 1)
         IN  IF l.kind \in {"def", "class"}
             THEN LET inner == ParseBlock(lines, j + 1, ind + 1) IN
                  IF ~inner.ok \/ inner.body = <<>> THEN ParseFail
                  ELSE LET rest == ParseBlock(lines, inner.next, ind) IN
                       IF ~rest.ok THEN ParseFail
                       ELSE [ok |-> TRUE,
                             body |-> <<Node(l, lead, inner.body)>> \o rest.body,
                             next |-> rest.next]
             ELSE IF l.kind = "expr" /\ ~Literals(l.txt).ok THEN ParseFail
             ELSE LET rest == ParseBlock(lines, j + 1, ind) IN
                  IF ~rest.ok THEN ParseFail
                  ELSE [ok |-> TRUE,
                        body |-> <<Node(l, lead, <<>>)>> \o rest.body,
                        next |-> rest.next]

\* cst.parse_module: the module's statements and its footer (trailing comments).
parse_module(source) ==
    LET r == ParseBlock(source, 1, 0) IN
    IF r.ok THEN [ok |-> TRUE, body |-> r.body,
                  footer |-> SubSeq(source, r.next, Len(source))]
    ELSE [ok |-> FALSE, body |-> <<>>, footer |-> <<>>]

\* Module.code: every node's leading lines, its own line at the block's
\* indentation, then its block one level deeper.
RECURSIVE CodegenBody(_, _)
CodegenBody(body, ind) ==
    IF body = <<>> THEN <<>>
    ELSE LET n == Head(body) IN
         n.lead \o <<Line(ind, n.t, n.name, n.mark, n.txt, n.cmt)>>
                \o CodegenBody(n.body, ind + 1)
                \o CodegenBody(Tail(body), ind)

code(module) == CodegenBody(module.body, 0) \o module.footer

\* ------------------------------------------------ the rewrite engine
\* SimpleString._validate: the literal has enclosing quotes that match, and a
\* literal opening with two equal quotes opens and closes with three.
SimpleStringValid(value) ==
    /\ Len(value) >= 2
    /\ value[1] = "q" /\ value[Len(value)] = "q"
    /\ (Len(value) >= 6 /\ value[1] = value[2]) =>
           /\ value[3] = value[1]
           /\ value[Len(value) - 1] = value[1]
           /\ value[Len(value) - 2] = value[1]

\* f'"""{doc}"""': the annotation between triple double quotes, as it is.
DocLiteral(doc) == Q3 \o doc \o Q3

\* A statement line holding the docstring alone: no leading lines, no comment.
make_docstring_node(doc) ==
    [t |-> "expr", lead |-> <<>>, name |-> "", mark |-> "",
     txt |-> DocLiteral(doc), cmt |-> "", body |-> <<>>]

\* m.SimpleStatementLine(body=[m.Expr(m.SimpleString())]): an expression line
\* of exactly one string literal (adjacent literals are a ConcatenatedString).
MatchesDocstring(n) == n.t = "expr" /\ Len(Literals(n.txt).vals) = 1

update_docstring(node, new_doc) == <<make_docstring_node(new_doc)>>

leave_FunctionDef(original_node, updated_node, modifications) ==
    IF original_node.name \in DOMAIN modifications
    THEN LET new_doc == modifications[original_node.name]
             body == updated_node.body
             new_body ==
                 IF body # <<>> /\ MatchesDocstring(body[1])
                 THEN update_docstring(body[1], new_doc) \o Tail(body)
                 ELSE update_docstring(<<>>, new_doc) \o body
         IN  [updated_node EXCEPT !.body = new_body]
    ELSE updated_node

leave_ClassDef(original_node, updated_node, modifications) ==
    IF original_node.name \in DOMAIN modifications
    THEN LET new_doc == modifications[original_node.name]
             body == updated_node.body
             new_body ==
                 IF body # <<>> /\ MatchesDocstring(body[1])
                 THEN update_docstring(body[1], new_doc) \o Tail(body)
                 ELSE update_docstring(<<>>, new_doc) \o body
         IN  [updated_node EXCEPT !.body = new_body]
    ELSE updated_node

\* module.visit(DocStringUpdater(modifications)): children first, then the
\* node's own leave_ method.
RECURSIVE VisitBody(_, _)
VisitBody(body, modifications) ==
    IF body = <<>> THEN <<>>
    ELSE LET n == Head(body)
             updated == [n EXCEPT !.body = VisitBody(n.body, modifications)]
             left == IF n.t = "def" THEN leave_FunctionDef(n, updated, modifications)
                     ELSE IF n.t = "class" THEN leave_ClassDef(n, updated, modifications)
                     ELSE updated
         IN  <<left>> \o VisitBody(Tail(body), modifications)

\* Whether the visit builds only valid nodes (an invalid one raises).
VisitValid(modifications) ==
    \A n \in DOMAIN modifications : SimpleStringValid(DocLiteral(modifications[n]))

\* Lines 138-145 of update_docstrings_in_file: parse, visit, emit; ok is FALSE
\* when any of them raises.
Transform(source, modifications) ==
    LET module == parse_module(source) IN
    IF module.ok /\ VisitValid(modifications)
    THEN [ok |-> TRUE,
          new_source |-> code([module EXCEPT !.body = VisitBody(module.body, modifications)])]
    ELSE [ok |-> FALSE, new_source |-> <<>>]

\* ------------------------------------- canonical source and cache key
\* ast.unparse: a statement per line, comments gone, every string written from
\* its value.  The text is a sequence of tokens.
Indent(ind) == [k \in 1..ind |-> ">"]

Decorator(mark) ==
    IF mark = "" THEN <<>>
    ELSE IF mark = "@" THEN <<"@docullim", "\n">>
    ELSE <<"@docullim(", mark, ")", "\n">>

RECURSIVE unparse(_, _)
unparse(body, ind) ==
    IF body = <<>> THEN <<>>
    ELSE LET n == Head(body)
             own == IF IsDefNode(n)
                    THEN Decorator(n.mark) \o Indent(ind) \o <<n.t, n.name, ":", "\n">>
                    ELSE IF n.t = "expr"
                    THEN Indent(ind) \o <<"'">> \o StringValue(n.txt) \o <<"'", "\n">>
                    ELSE Indent(ind) \o <<n.name, "\n">>
         IN  own \o unparse(n.body, ind + 1) \o unparse(Tail(body), ind)

\* A first statement that is a string constant: what ast calls the docstring.
IsDocstring(n) == n.t = "expr"

\* For each top-level definition, drop a first statement that is a docstring.
StripDocstrings(body) ==
    [i \in 1..Len(body) |->
        IF IsDefNode(body[i]) /\ body[i].body # <<>> /\ IsDocstring(body[i].body[1])
        THEN [body[i] EXCEPT !.body = Tail(@)]
        ELSE body[i]]

\* remove_existing_docstring: the unparsed source without its docstring, or
\* (when the source does not parse) the source as it is, token for token.
RawTokens(source) ==
    Flatten([i \in 1..Len(source) |->
        Indent(source[i].ind) \o <<source[i].kind, source[i].name, source[i].mark>>
            \o source[i].txt \o <<source[i].cmt, "\n">>])

remove_existing_docstring(source) ==
    LET tree == parse_module(source) IN
    IF tree.ok THEN unparse(StripDocstrings(tree.body), 0) ELSE RawTokens(source)

\* hashlib.sha256(...).hexdigest(), taken as collision-free: the digest names
\* its input.
hash_source(source) == [sha256 |-> source]

\* key = hash_source(source + prompt_template)
CacheKey(source, prompt_template) == hash_source(source \o prompt_template)

\* ------------------------------------------------------- the cache
\* The docs table is a sequence of rows [hash, doc].  A lookup result is
\* [found, doc]; found = FALSE stands for Python's None.
None == [found |-> FALSE, doc |-> <<>>]
Some(doc) == [found |-> TRUE, doc |-> doc]

RowsOf(rows, key) == SelectSeq(rows, LAMBDA r : r.hash = key)

\* A lookup that never finds its row.
Cache_get_miss(rows, key) == None

\* SELECT doc FROM docs WHERE hash=? and fetchone(): the first matching row.
Cache_get(rows, key) ==
    LET row == RowsOf(rows, key) IN
    IF row # <<>> THEN Some(row[1].doc) ELSE None

\* A table without the primary key: the row is appended.
InsertRow(rows, key, value) == Append(rows, [hash |-> key, doc |-> value])

\* A set whose transaction is never committed: the table stays as it was.
Uncommitted(rows, key, value) == rows

\* REPLACE INTO docs (hash, doc) VALUES (?, ?) with hash the primary key: the
\* row of the same hash is deleted, the new row inserted, and committed.
Cache_set(rows, key, value) ==
    Append(SelectSeq(rows, LAMBDA r : r.hash # key), [hash |-> key, doc |-> value])

\* ----------------------------------------------------- configuration
Paths == {"a.py", "b.py"}
\* max_concurrency as the runs of this model are given it (-n 2)
MaxConcurrency == 2

\* load_config's result: the default prompt and one tagged prompt.
config ==
    [model |-> "gpt-4",
     prompts |-> [t \in {"default", "T"} |-> IF t = "T" THEN <<"t">> ELSE <<"p">>]]

\* What litellm's completion does for one call: it returns a response with
\* this content, or raises an exception with this message.
Completions ==
    {[raises |-> FALSE, text |-> <<"d">>], [raises |-> TRUE, text |-> <<"d">>]}

\* "Error generating documentation: "
ErrorPrefix == <<"d">>

\* A gateway without its try/except: the exception leaves generate_doc.
generate_doc_unguarded(source_code, model, prompt_template, completion) ==
    IF completion.raises THEN [raised |-> TRUE, doc |-> <<>>]
    ELSE [raised |-> FALSE, doc |-> completion.text]

\* generate_doc: the stripped content of the response (contents here carry no
\* white space), or the error message built in the except branch.
generate_doc(source_code, model, prompt_template, completion) ==
    IF completion.raises THEN [raised |-> FALSE, doc |-> ErrorPrefix \o completion.text]
    ELSE [raised |-> FALSE, doc |-> completion.text]

\* What generate_doc may return (generation is not deterministic).
ModelOutputs == {generate_doc(<<>>, config.model, <<>>, c).doc : c \in Completions}

\* ---------------------------------------------------- unit discovery
\* dir(module) lists names in sorted order.
NameOrder == <<"C", "f", "g", "h">>

\* getattr(module, name): the last module-level definition of that name.
Binding(body, name) ==
    LET idx == {i \in 1..Len(body) : IsDefNode(body[i]) /\ body[i].name = name} IN
    IF idx = {} THEN <<>> ELSE <<body[CHOOSE i \in idx : \A j \in idx : j <= i]>>

\* inspect.getsource: the definition's own lines, decorator to end of block.
getsource(node) == CodegenBody(<<[node EXCEPT !.lead = <<>>]>>, 0)

\* default_prompt = prompts.get("default"), then
\* prompts.get(tag, default_prompt) if tag else default_prompt: a text or None
prompt_lookup(mark, prompts) ==
    LET default_prompt ==
            IF "default" \in DOMAIN prompts THEN Some(prompts["default"]) ELSE None
    IN  IF mark # "@" /\ mark \in DOMAIN prompts THEN Some(prompts[mark]) ELSE default_prompt

\* the prompt template as a text (empty where the lookup gave None)
PromptFor(mark, prompts) == prompt_lookup(mark, prompts).doc

\* The loop header of process_file: every marked module attribute with its
\* canonical source and prompt template, in dir() order.
MarkedUnits(body, prompts) ==
    LET unit(name) ==
            LET b == Binding(body, name) IN
            IF b # <<>> /\ b[1].mark # ""
            THEN <<[name |-> name,
                    source |-> remove_existing_docstring(getsource(b[1])),
                    prompt_template |-> PromptFor(b[1].mark, prompts),
                    has_prompt |-> prompt_lookup(b[1].mark, prompts).found]>>
            ELSE <<>>
    IN  Flatten([i \in 1..Len(NameOrder) |-> unit(NameOrder[i])])

UnitKey(u) == CacheKey(u.source, u.prompt_template)

\* The units process_file finds in a file's text (none when the import fails).
UnitsOfText(text) ==
    LET module == parse_module(text) IN
    IF module.ok THEN MarkedUnits(module.body, config.prompts) ELSE <<>>

\* ------------------------------------------------------------ state
VARIABLES
    disk,        \* path -> the file's text
    store,       \* the rows of .docullim/cache.sqlite
    main,        \* the command-line run: [pc, write, reset, all_docs]
    proc,        \* path -> the process_file call on it (see FreshProc)
    genCalls,    \* history: key -> generation calls since the last reset (capped at 2)
    lastSet,     \* history: key -> value of the last completed set since the last reset
    overwritten, \* history: keys whose row a set replaced by a different text
    last,        \* history: path -> what process_file last returned for it
    upd,         \* one update_docstrings_in_file call: [pc, path, modifications, source, new_source]
    orig,        \* history: the file's text when that call began
    kin,         \* two (source, prompt template) pairs
    kout,        \* the keys computed for them
    call,        \* one process_file call by itself: its arguments and its outcome
    cli          \* main() from its patterns to its tasks: [pc, patterns, files, status]

pvars == <<store, main, proc, genCalls, lastSet, overwritten, last>>
uvars == <<upd, orig>>
kvars == <<kin, kout>>
cvars == <<call, cli>>
vars == <<disk, store, main, proc, genCalls, lastSet, overwritten, last, upd, orig, kin, kout,
          call, cli>>

EmptyMap == <<>>

\* d[k] = v on a Python dict
Put(d, k, v) == [x \in DOMAIN d \cup {k} |-> IF x = k THEN v ELSE d[x]]

\* known: process_file returned; finished: so did the run it was part of
Unknown == [known |-> FALSE, finished |-> FALSE, docs |-> EmptyMap, text |-> <<>>]

FreshProc ==
    [pc |-> "todo",      \* todo, get, gen, set, tail, done, reported, raised, killed
     units |-> <<>>,     \* the marked units still to do, the current one first
     docs |-> EmptyMap,  \* docs, and modifications when writing
     doc |-> <<>>,       \* the text just generated
     ngen |-> 0,         \* generation calls of this call
     hadPut |-> FALSE,   \* history: a set for the current key had completed at its get
     err |-> "",         \* what raised
     text |-> <<>>,      \* history: the file's text as imported
     prev |-> Unknown]   \* history: the previous call's return on this file

PipelineIdle ==
    /\ store = <<>>
    /\ main = [pc |-> "idle", write |-> FALSE, reset |-> FALSE, patterns |-> <<>>,
               all_docs |-> EmptyMap]
    /\ proc = [f \in Paths |-> FreshProc]
    /\ genCalls = EmptyMap
    /\ lastSet = EmptyMap
    /\ overwritten = {}
    /\ last = [f \in Paths |-> Unknown]

RewriteIdle ==
    /\ upd = [pc |-> "none", path |-> "", modifications |-> EmptyMap,
              source |-> <<>>, new_source |-> <<>>]
    /\ orig = <<>>

KeyIdle ==
    /\ kin = <<>>
    /\ kout = <<>>

NoCall ==
    [pc |-> "none", path |-> "", config |-> EmptyMap, cached |-> FALSE, write |-> FALSE,
     calls |-> 0, raised |-> "", docs |-> EmptyMap, ngen |-> 0, text |-> <<>>,
     first |-> EmptyMap]

CallIdle == call = NoCall

CollectIdle ==
    cli = [pc |-> "none", patterns |-> <<>>, files |-> {}, status |-> 0,
           running |-> {}, finished |-> {}]

\* ----------------------------------------------------- sample files
Pass(ind) == <<StmtLine(ind, "pass")>>

\* A definition: header, leading statements, nested definitions, a statement.
DefText(ind, kind, name, mark, docform, inner) ==
    <<DefLine(ind, kind, name, mark)>> \o docform \o inner \o Pass(ind + 1)

\* def f(): pass, marked
FileF == DefText(0, "def", "f", "@", <<>>, <<>>)
\* def f() with a docstring, marked, and def g(), marked with tag T
FileFG ==
    DefText(0, "def", "f", "@", <<ExprLine(1, DocLiteral(<<"d">>), "")>>, <<>>)
        \o DefText(0, "def", "g", "T", <<>>, <<>>)
\* nothing marked
FileH == DefText(0, "def", "h", "", <<>>, <<>>)

PipelineFiles == {FileF, FileFG, FileH}

\* ------------------------------------------------ the rewrite, whole
\* update_docstrings_in_file start to end with nothing failing: the text the
\* file holds afterwards.
update_docstrings_in_file(text, modifications) ==
    LET r == Transform(text, modifications) IN
    IF r.ok THEN r.new_source ELSE text

\* ------------------------------------------------------ the pipeline
\* A path as it is spelled on the command line or by glob, and the file it
\* names.
Dot(f) == IF f = "a.py" THEN "./a.py" ELSE "./b.py"
RealPath(p) == IF p = "./a.py" THEN "a.py" ELSE IF p = "./b.py" THEN "b.py" ELSE p

\* any(wildcard in pattern for wildcard in ["*", "?", "[", "]"])
IsGlob(pattern) == pattern \in {"*.py", "./*.py"}

\* glob.glob(pattern, recursive=True): the matches, spelled as the pattern is
glob(pattern) ==
    IF pattern = "*.py" THEN DOMAIN disk ELSE {Dot(f) : f \in DOMAIN disk}

\* An existence test that every name passes.
exists_any(pattern) == TRUE

\* os.path.exists(pattern)
exists(pattern) == RealPath(pattern) \in DOMAIN disk

\* collect_files: the matches of every glob pattern and every other pattern
\* that exists, as a set of path strings.
collect_files(patterns) ==
    UNION {IF IsGlob(patterns[i]) THEN glob(patterns[i])
           ELSE IF exists(patterns[i]) THEN {patterns[i]} ELSE {} :
           i \in 1..Len(patterns)}

\* The patterns of the pipeline's runs: every file, or a name that is no file.
PipelinePatterns == {<<"*.py">>, <<"missing.py">>}

\* The calls a pool worker is executing.
InFlight == {f \in Paths : proc[f].pc \in {"get", "gen", "set", "tail"}}

CurKey(f) == UnitKey(Head(proc[f].units))

\* docs[attr_name] = doc, and on to the next marked attribute
Advance(p, doc) ==
    [p EXCEPT !.docs = Put(@, Head(p.units).name, doc),
              !.units = Tail(@),
              !.doc = <<>>,
              !.hadPut = FALSE,
              !.pc = IF Tail(p.units) = <<>> THEN "tail" ELSE "get"]

\* The exception ends the call: nothing of it is left but the error.
Raise(p, what) == [FreshProc EXCEPT !.pc = "raised", !.err = what]

Count(c, k) == IF k \in DOMAIN c THEN c[k] ELSE 0

\* A reset that leaves the database file where it is.
ResetCache_kept(rows, reset) == rows

\* if args.reset_cache and os.path.exists(db_path): os.remove(db_path); the
\* next Cache() creates the file and an empty table.
ResetCache(rows, reset) == IF reset THEN <<>> ELSE rows

\* main() up to the pool, in a first or a later run over the same directory:
\* the optional cache reset, then collect_files.
StartRun(write, reset, patterns) ==
    /\ main.pc \in {"idle", "done", "aborted", "exit"}
    /\ LET files == collect_files(patterns) IN
       /\ main' = [pc |-> IF files = {} THEN "exit" ELSE "pool", write |-> write,
                   reset |-> reset, patterns |-> patterns, all_docs |-> EmptyMap]
       /\ proc' = [f \in Paths |->
                     IF f \in files THEN FreshProc ELSE [FreshProc EXCEPT !.pc = "none"]]
    /\ store' = ResetCache(store, reset)
    /\ IF reset
       THEN /\ genCalls' = EmptyMap
            /\ lastSet' = EmptyMap
            /\ overwritten' = {}
            /\ last' = [f \in Paths |-> Unknown]
       ELSE UNCHANGED <<genCalls, lastSet, overwritten, last>>
    /\ UNCHANGED <<disk, uvars, kvars, cvars>>

\* A pool worker takes the file: Cache(), the import, the marked attributes.
StartFile(f) ==
    /\ main.pc = "pool"
    /\ proc[f].pc = "todo"
    /\ Cardinality(InFlight) < MaxConcurrency
    /\ LET units == UnitsOfText(disk[f]) IN
       proc' = [proc EXCEPT ![f] =
                   [FreshProc EXCEPT !.pc = IF units = <<>> THEN "tail" ELSE "get",
                                     !.units = units,
                                     !.text = disk[f],
                                     !.prev = last[f]]]
    /\ UNCHANGED <<disk, store, main, genCalls, lastSet, overwritten, last, uvars, kvars, cvars>>

\* doc = cache.get(key): a hit, a miss, or sqlite3 raising (the store locked,
\* unreachable or corrupt), which nothing catches.
CacheGet(f) ==
    /\ main.pc = "pool"
    /\ proc[f].pc = "get"
    /\ LET key == CurKey(f)
           doc == Cache_get(store, key)
           p == [proc[f] EXCEPT !.hadPut = key \in DOMAIN lastSet]
       IN  \/ proc' = [proc EXCEPT ![f] =
                          IF doc.found THEN Advance(p, doc.doc) ELSE [p EXCEPT !.pc = "gen"]]
           \/ proc' = [proc EXCEPT ![f] = Raise(p, "cache")]
    /\ UNCHANGED <<disk, store, main, genCalls, lastSet, overwritten, last, uvars, kvars, cvars>>

\* doc = generate_doc(source, model, prompt_template)
Generate(f) ==
    /\ main.pc = "pool"
    /\ proc[f].pc = "gen"
    /\ \E c \in Completions :
          LET u == Head(proc[f].units)
              r == generate_doc(u.source, config.model, u.prompt_template, c)
          IN  proc' = [proc EXCEPT ![f] =
                          IF r.raised THEN Raise([@ EXCEPT !.ngen = @ + 1], "generate")
                          ELSE [@ EXCEPT !.doc = r.doc, !.ngen = @ + 1, !.pc = "set"]]
    /\ genCalls' = Put(genCalls, CurKey(f),
                       IF Count(genCalls, CurKey(f)) < 2
                       THEN Count(genCalls, CurKey(f)) + 1 ELSE 2)
    /\ UNCHANGED <<disk, store, main, lastSet, overwritten, last, uvars, kvars, cvars>>

\* cache.set(key, doc), then docs[attr_name] = doc; or sqlite3 raising.
CacheSet(f) ==
    /\ main.pc = "pool"
    /\ proc[f].pc = "set"
    /\ LET key == CurKey(f)
           d == proc[f].doc
       IN  \/ /\ store' = Cache_set(store, key, d)
              /\ lastSet' = Put(lastSet, key, d)
              /\ overwritten' = IF key \in DOMAIN lastSet /\ lastSet[key] # d
                                THEN overwritten \cup {key} ELSE overwritten
              /\ proc' = [proc EXCEPT ![f] = Advance(@, d)]
           \/ /\ proc' = [proc EXCEPT ![f] = Raise(@, "cache")]
              /\ UNCHANGED <<store, lastSet, overwritten>>
    /\ UNCHANGED <<disk, main, genCalls, last, uvars, kvars, cvars>>

\* A tail that rewrites the file whether or not write mode is on.
ProcessFileTail_unasked(f) ==
    /\ main.pc = "pool"
    /\ proc[f].pc = "tail"
    /\ disk' = IF DOMAIN proc[f].docs # {}
               THEN [disk EXCEPT ![f] = update_docstrings_in_file(disk[f], proc[f].docs)]
               ELSE disk
    /\ proc' = [proc EXCEPT ![f].pc = "done"]
    /\ last' = [last EXCEPT ![f] =
                   [known |-> TRUE, finished |-> FALSE,
                    docs |-> proc[f].docs, text |-> proc[f].text]]
    /\ UNCHANGED <<store, main, genCalls, lastSet, overwritten, uvars, kvars, cvars>>

\* After the loop: the rewrite when writing and something was generated, then
\* return docs.  The rewrite's open(file_path, "w") may raise OSError (the
\* file is read-only, the disk is full), which nothing catches.
ProcessFileTail(f) ==
    /\ main.pc = "pool"
    /\ proc[f].pc = "tail"
    /\ LET modifications == IF main.write THEN proc[f].docs ELSE EmptyMap IN
       \/ /\ disk' = IF main.write /\ DOMAIN modifications # {}
                      THEN [disk EXCEPT ![f] = update_docstrings_in_file(disk[f], modifications)]
                      ELSE disk
          /\ proc' = [proc EXCEPT ![f].pc = "done"]
          /\ last' = [last EXCEPT ![f] =
                         [known |-> TRUE, finished |-> FALSE,
                          docs |-> proc[f].docs, text |-> proc[f].text]]
       \/ /\ main.write /\ DOMAIN modifications # {}
          /\ Transform(disk[f], modifications).ok
          /\ proc' = [proc EXCEPT ![f] = Raise(@, "io")]
          /\ UNCHANGED <<disk, last>>
    /\ UNCHANGED <<store, main, genCalls, lastSet, overwritten, uvars, kvars, cvars>>

\* A report that holds the result that arrived last and no other.
KeepLatest(all_docs, file_path, docs) ==
    IF DOMAIN docs # {} THEN [x \in {file_path} |-> docs] ELSE all_docs

\* if docs: all_docs[file_path] = docs
KeepResult(all_docs, file_path, docs) ==
    IF DOMAIN docs # {} THEN Put(all_docs, file_path, docs) ELSE all_docs

\* main's loop over imap_unordered: a result is kept when docs is not empty.
Collect(f) ==
    /\ main.pc = "pool"
    /\ proc[f].pc = "done"
    /\ main' = [main EXCEPT !.all_docs = KeepResult(@, f, proc[f].docs)]
    /\ proc' = [proc EXCEPT ![f].pc = "reported"]
    /\ UNCHANGED <<disk, store, genCalls, lastSet, overwritten, last, uvars, kvars, cvars>>

\* print(json.dumps(all_docs, indent=2))
FinishRun ==
    /\ main.pc = "pool"
    /\ \A f \in Paths : proc[f].pc \in {"reported", "none"}
    /\ main' = [main EXCEPT !.pc = "done"]
    /\ last' = [f \in Paths |->
                  IF proc[f].pc = "reported" THEN [last[f] EXCEPT !.finished = TRUE]
                  ELSE last[f]]
    /\ UNCHANGED <<disk, store, proc, genCalls, lastSet, overwritten, uvars, kvars, cvars>>

\* A worker's exception reaches main through imap_unordered; leaving the with
\* block terminates the pool and main ends with the traceback.
Abort ==
    /\ main.pc = "pool"
    /\ \E f \in Paths : proc[f].pc = "raised"
    /\ main' = [main EXCEPT !.pc = "aborted"]
    /\ proc' = [f \in Paths |->
                  IF proc[f].pc \in {"todo", "get", "gen", "set", "tail", "done", "reported"}
                  THEN [FreshProc EXCEPT !.pc = "killed"] ELSE proc[f]]
    /\ UNCHANGED <<disk, store, genCalls, lastSet, overwritten, last, uvars, kvars, cvars>>

Init ==
    /\ disk \in {d \in [Paths -> PipelineFiles] :
                    d["b.py"] = FileF \/ (d["a.py"] = FileH /\ d["b.py"] = FileH)}
    /\ PipelineIdle
    /\ RewriteIdle
    /\ KeyIdle
    /\ CallIdle
    /\ CollectIdle

Next ==
    \/ \E write \in BOOLEAN, reset \in BOOLEAN, patterns \in PipelinePatterns :
          StartRun(write, reset, patterns)
    \/ \E f \in Paths : StartFile(f)
    \/ \E f \in Paths : CacheGet(f)
    \/ \E f \in Paths : Generate(f)
    \/ \E f \in Paths : CacheSet(f)
    \/ \E f \in Paths : ProcessFileTail(f)
    \/ \E f \in Paths : Collect(f)
    \/ FinishRun
    \/ Abort

Spec == Init /\ [][Next]_vars

\* ------------------------------------- the rewrite, step by step
\* Every annotation text of at most MaxDocLen characters.
Docs == UNION {[1..n -> Chars] : n \in 0..MaxDocLen}

\* How a body may open: no docstring, a docstring, one under a comment line,
\* one with a trailing comment, one written as two adjacent literals.
DocForms(ind) ==
    { <<>>,
      <<ExprLine(ind, DocLiteral(<<"d">>), "")>>,
      <<CmtLine(ind, "c"), ExprLine(ind, DocLiteral(<<"d">>), "")>>,
      <<ExprLine(ind, DocLiteral(<<"d">>), "c")>>,
      <<ExprLine(ind, DocLiteral(<<"d">>) \o DocLiteral(<<"d">>), "")>> }

RewriteFiles ==
    {DefText(0, "def", "f", "@", d, <<>>) : d \in DocForms(1)}
    \cup {DefText(0, "def", "f", "@", d1, <<>>)
              \o DefText(0, "class", "C", "", <<>>, DefText(1, "def", "f", "", d2, <<>>)) :
          d1 \in DocForms(1), d2 \in DocForms(2)}
    \cup {DefText(0, "def", "f", "", <<>>, <<>>) \o DefText(0, "def", "f", "@", d, <<>>) :
          d \in DocForms(1)}
    \cup {<<CmtLine(0, "c")>> \o DefText(0, "class", "C", "@", d, <<>>) \o <<CmtLine(0, "c")>> :
          d \in DocForms(1)}
    \cup {<<DefLine(0, "def", "f", "@")>>}

RewriteMods ==
    {EmptyMap} \cup {[n \in S |-> d] : S \in {{"f"}, {"C"}, {"f", "C"}}, d \in Docs}

RewritePath == "a.py"

Prefixes(text) == {SubSeq(text, 1, k) : k \in 0..Len(text)}

\* with open(file_path, "r") as f: source = f.read()
URead ==
    /\ upd.pc = "call"
    /\ upd' = [upd EXCEPT !.pc = "read", !.source = disk[upd.path]]
    /\ UNCHANGED <<disk, orig, pvars, kvars, cvars>>

\* The try block: new_source in full, or the error printed and return.
UTransform ==
    /\ upd.pc = "read"
    /\ LET r == Transform(upd.source, upd.modifications) IN
       upd' = IF r.ok THEN [upd EXCEPT !.pc = "ready", !.new_source = r.new_source]
              ELSE [upd EXCEPT !.pc = "returned"]
    /\ UNCHANGED <<disk, orig, pvars, kvars, cvars>>

\* open(file_path, "w"): the file is truncated.
UOpenWrite ==
    /\ upd.pc = "ready"
    /\ disk' = [disk EXCEPT ![upd.path] = <<>>]
    /\ upd' = [upd EXCEPT !.pc = "opened"]
    /\ UNCHANGED <<orig, pvars, kvars, cvars>>

\* f.write(new_source) and the close that flushes it.
UWrite ==
    /\ upd.pc = "opened"
    /\ disk' = [disk EXCEPT ![upd.path] = upd.new_source]
    /\ upd' = [upd EXCEPT !.pc = "returned"]
    /\ UNCHANGED <<orig, pvars, kvars, cvars>>

\* An OSError from open (nothing written) or from the write (part written).
UWriteError ==
    /\ upd.pc \in {"ready", "opened"}
    /\ IF upd.pc = "ready" THEN disk' = disk
       ELSE \E t \in Prefixes(upd.new_source) :
                t # upd.new_source /\ disk' = [disk EXCEPT ![upd.path] = t]
    /\ upd' = [upd EXCEPT !.pc = "raised"]
    /\ UNCHANGED <<orig, pvars, kvars, cvars>>

\* The process is cancelled (the pool terminated, an interrupt): what reached
\* the file so far stays.
UCancel ==
    /\ upd.pc \in {"call", "read", "ready", "opened"}
    /\ IF upd.pc = "opened"
       THEN \E t \in Prefixes(upd.new_source) : disk' = [disk EXCEPT ![upd.path] = t]
       ELSE disk' = disk
    /\ upd' = [upd EXCEPT !.pc = "killed"]
    /\ UNCHANGED <<orig, pvars, kvars, cvars>>

InitRewrite ==
    /\ disk \in [{RewritePath} -> RewriteFiles]
    /\ \E m \in RewriteMods :
          upd = [pc |-> "call", path |-> RewritePath, modifications |-> m,
                 source |-> <<>>, new_source |-> <<>>]
    /\ orig = disk[RewritePath]
    /\ PipelineIdle
    /\ KeyIdle
    /\ CallIdle
    /\ CollectIdle

NextRewrite == URead \/ UTransform \/ UOpenWrite \/ UWrite \/ UWriteError \/ UCancel

SpecRewrite == InitRewrite /\ [][NextRewrite]_vars

\* ------------------------------------------------ the key, by itself
KeyChars == {"x", "y"}
KeyStrings == UNION {[1..n -> KeyChars] : n \in 0..MaxKeyLen}
\* the text of a definition is never empty; a configured prompt may be
KeySources == KeyStrings \ {<<>>}

\* key = hash_source(source + prompt_template), for two units
ComputeKeys ==
    /\ kout = <<>>
    /\ kout' = <<CacheKey(kin[1].source, kin[1].prompt_template),
                 CacheKey(kin[2].source, kin[2].prompt_template)>>
    /\ UNCHANGED <<disk, kin, pvars, uvars, cvars>>

InitKey ==
    /\ kin \in [1..2 -> [source : KeySources, prompt_template : KeyStrings]]
    /\ kout = <<>>
    /\ disk = [f \in Paths |-> <<>>]
    /\ PipelineIdle
    /\ RewriteIdle
    /\ CallIdle
    /\ CollectIdle

NextKey == ComputeKeys

SpecKey == InitKey /\ [][NextKey]_vars

\* ------------------------------------- one process_file call, whole
\* DEFAULT_CONFIG of config.py
DEFAULT_CONFIG ==
    [model |-> "gpt-4", max_concurrency |-> 1,
     prompts |-> [t \in {"default"} |-> <<"p">>]]

\* load_config: the defaults, updated key by key with the JSON object of the
\* config file when there is one and it can be read.
load_config(file) ==
    IF file.ok
    THEN [k \in DOMAIN DEFAULT_CONFIG \cup DOMAIN file.json |->
             IF k \in DOMAIN file.json THEN file.json[k] ELSE DEFAULT_CONFIG[k]]
    ELSE DEFAULT_CONFIG

\* No config file (or a malformed one), an empty object, prompts for a tag
\* only, prompts with a default.
ConfigFiles ==
    {[ok |-> FALSE, json |-> EmptyMap],
     [ok |-> TRUE, json |-> EmptyMap],
     [ok |-> TRUE, json |-> [k \in {"prompts"} |-> [t \in {"T"} |-> <<"t">>]]],
     [ok |-> TRUE, json |-> [k \in {"prompts"} |-> config.prompts]]}

\* The config argument: a caller's own mapping (the empty one) or load_config's.
CallConfigs == {EmptyMap} \cup {load_config(c) : c \in ConfigFiles}

\* a marked class C with a method f, and a marked function f
FileCf ==
    DefText(0, "class", "C", "@", <<>>, DefText(1, "def", "f", "", <<>>, <<>>))
        \o DefText(0, "def", "f", "@", <<>>, <<>>)

CallFiles == PipelineFiles \cup {FileCf}

\* The loop of process_file from its i-th marked attribute on.  acc is
\* [raised, docs, rows, ngen]; the i-th completion answers the i-th unit.
RECURSIVE process_units(_, _, _, _, _, _)
process_units(units, model, cached, completions, i, acc) ==
    IF i > Len(units) \/ acc.raised # "" THEN acc
    ELSE LET u == units[i] IN
         \* source + prompt_template with prompt_template None
         IF ~u.has_prompt THEN [acc EXCEPT !.raised = "TypeError"]
         ELSE LET key == UnitKey(u)
                  doc == IF cached THEN Cache_get(acc.rows, key) ELSE None
                  r == generate_doc(u.source, model, u.prompt_template, completions[i])
              IN  IF doc.found
                  THEN process_units(units, model, cached, completions, i + 1,
                                     [acc EXCEPT !.docs = Put(@, u.name, doc.doc)])
                  ELSE IF r.raised
                  THEN [acc EXCEPT !.raised = "generate", !.ngen = @ + 1]
                  ELSE process_units(units, model, cached, completions, i + 1,
                                     [acc EXCEPT !.docs = Put(@, u.name, r.doc),
                                                 !.ngen = @ + 1,
                                                 !.rows = IF cached
                                                          THEN Cache_set(@, key, r.doc)
                                                          ELSE @])

\* process_file(file_path, config, cache, write) on a file holding text, with
\* the cache (when there is one) holding rows: what it returns or raises, the
\* rows and the file's text afterwards.
process_result(r, text, write) ==
    [raised |-> r.raised,
     docs |-> IF r.raised = "" THEN r.docs ELSE EmptyMap,
     ngen |-> r.ngen,
     rows |-> r.rows,
     text |-> IF r.raised = "" /\ write /\ DOMAIN r.docs # {}
              THEN update_docstrings_in_file(text, r.docs)
              ELSE text]

process_file(text, cfg, cached, rows, write, completions) ==
    LET model == IF "model" \in DOMAIN cfg THEN cfg.model ELSE "gpt-4"
        prompts == IF "prompts" \in DOMAIN cfg THEN cfg.prompts ELSE EmptyMap
        units == IF parse_module(text).ok
                 THEN MarkedUnits(parse_module(text).body, prompts) ELSE <<>>
    IN  process_result(
            process_units(units, model, cached, completions, 1,
                          [raised |-> "", docs |-> EmptyMap, rows |-> rows, ngen |-> 0]),
            text, write)

CallPath == "a.py"

\* The call runs from start to end.
ProcessFile ==
    /\ call.pc = "args"
    /\ \E completions \in [1..Len(NameOrder) -> Completions] :
       \E r \in {process_file(disk[call.path], call.config, call.cached, store,
                               call.write, completions)} :
          /\ call' = [call EXCEPT !.pc = IF r.raised = "" THEN "returned" ELSE "raised",
                                  !.calls = @ + 1,
                                  !.raised = r.raised,
                                  !.docs = r.docs,
                                  !.ngen = r.ngen,
                                  !.text = disk[call.path]]
          /\ store' = r.rows
          /\ disk' = [disk EXCEPT ![call.path] = r.text]
    /\ UNCHANGED <<main, proc, genCalls, lastSet, overwritten, last, uvars, kvars, cli>>

\* The same arguments again, write mode on or off, once the first call returned.
ProcessFileAgain ==
    /\ call.pc = "returned"
    /\ call.calls = 1
    /\ \E write \in BOOLEAN :
          call' = [call EXCEPT !.pc = "args", !.write = write,
                              !.first = [write |-> call.write, docs |-> call.docs,
                                         before |-> call.text, after |-> disk[call.path]]]
    /\ UNCHANGED <<disk, pvars, uvars, kvars, cli>>

InitCall ==
    /\ disk \in [{CallPath} -> CallFiles]
    /\ \E cfg \in CallConfigs, cached \in BOOLEAN, write \in BOOLEAN :
          call = [NoCall EXCEPT !.pc = "args", !.path = CallPath, !.config = cfg,
                                !.cached = cached, !.write = write]
    /\ PipelineIdle
    /\ RewriteIdle
    /\ KeyIdle
    /\ CollectIdle

NextCall == ProcessFile \/ ProcessFileAgain

SpecCall == InitCall /\ [][NextCall]_vars

\* ------------------------------------- from the patterns to the tasks
PatternNames == {"a.py", "b.py", "./a.py", "missing.py", "*.py", "./*.py"}

PatternLists == UNION {[1..n -> PatternNames] : n \in 1..MaxPatterns}

\* files = collect_files(args.patterns); exit status 1 without files,
\* otherwise one task per collected path.
CliCollect ==
    /\ cli.pc = "args"
    /\ \E files \in {collect_files(cli.patterns)} :
          cli' = [cli EXCEPT !.files = files,
                             !.pc = IF files = {} THEN "exit" ELSE "pool",
                             !.status = IF files = {} THEN 1 ELSE 0]
    /\ UNCHANGED <<disk, pvars, uvars, kvars, call>>

\* A pool worker takes the next task: process_file_worker on that path.
TaskStart(p) ==
    /\ cli.pc = "pool"
    /\ p \in cli.files \ (cli.running \cup cli.finished)
    /\ Cardinality(cli.running) < MaxConcurrency
    /\ cli' = [cli EXCEPT !.running = @ \cup {p}]
    /\ UNCHANGED <<disk, pvars, uvars, kvars, call>>

\* The worker returns (file_path, result).
TaskEnd(p) ==
    /\ cli.pc = "pool"
    /\ p \in cli.running
    /\ cli' = [cli EXCEPT !.running = @ \ {p}, !.finished = @ \cup {p}]
    /\ UNCHANGED <<disk, pvars, uvars, kvars, call>>

\* Every task has returned: the report is printed.
CliReport ==
    /\ cli.pc = "pool"
    /\ cli.finished = cli.files
    /\ cli' = [cli EXCEPT !.pc = "done"]
    /\ UNCHANGED <<disk, pvars, uvars, kvars, call>>

InitCollect ==
    /\ \E D \in SUBSET Paths : disk = [f \in D |-> FileH]
    /\ \E patterns \in PatternLists :
          cli = [pc |-> "args", patterns |-> patterns, files |-> {}, status |-> 0,
                 running |-> {}, finished |-> {}]
    /\ PipelineIdle
    /\ RewriteIdle
    /\ KeyIdle
    /\ CallIdle

NextCollect ==
    \/ CliCollect
    \/ \E p \in cli.files : TaskStart(p)
    \/ \E p \in cli.files : TaskEnd(p)
    \/ CliReport

SpecCollect == InitCollect /\ [][NextCollect]_vars

\* ------------------------------------------------------------ claims

\* C1 as stated: no fingerprint is ever generated twice, whatever the
\* interleaving of the workers' get -> generate -> put sequences.
C1_AtMostOneGeneration == \A k \in DOMAIN genCalls : genCalls[k] <= 1

\* C1, amended: a worker generates a fingerprint only if its own get for it
\* ran before any put for that fingerprint had completed (since the last
\* reset); once a put has completed, a worker that gets afterwards does not
\* generate.
C1_GenerateOnlyAfterMiss ==
    \A f \in Paths : proc[f].pc \in {"gen", "set"} => ~proc[f].hadPut

\* A call that found every unit of its file in the cache, each generated once
\* before, and made no generation call.
C1_Witness ==
    \E f \in Paths :
        /\ proc[f].pc = "tail"
        /\ proc[f].ngen = 0
        /\ DOMAIN proc[f].docs # {}
        /\ \A i \in 1..Len(UnitsOfText(proc[f].text)) :
              Count(genCalls, UnitKey(UnitsOfText(proc[f].text)[i])) = 1

\* The second processing of an unchanged file, write mode off, against the
\* cache of the first one, whose run finished.
SecondRun(f) ==
    /\ proc[f].pc \in {"done", "reported"}
    /\ ~main.write
    /\ proc[f].prev.known
    /\ proc[f].prev.finished
    /\ proc[f].prev.text = proc[f].text

UnitKeys(text) == {UnitKey(UnitsOfText(text)[i]) : i \in 1..Len(UnitsOfText(text))}

\* C2 as stated: the second run makes no generation call and returns the
\* first run's annotation text for every unit.
C2_SecondRunSame ==
    \A f \in Paths :
        SecondRun(f) => proc[f].ngen = 0 /\ proc[f].docs = proc[f].prev.docs

\* C2, amended: the second run makes no generation call and returns for every
\* unit the text the cache holds for its fingerprint; that is the first run's
\* text unless a put replaced the fingerprint's entry by a different text.
C2_SecondRunFromCache ==
    \A f \in Paths :
        SecondRun(f) =>
            /\ proc[f].ngen = 0
            /\ \A i \in 1..Len(UnitsOfText(proc[f].text)) :
                  LET u == UnitsOfText(proc[f].text)[i] IN
                  /\ u.name \in DOMAIN proc[f].docs
                  /\ UnitKey(u) \in DOMAIN lastSet
                  /\ proc[f].docs[u.name] = lastSet[UnitKey(u)]
            /\ UnitKeys(proc[f].text) \cap overwritten = {} =>
                  proc[f].docs = proc[f].prev.docs

\* A second processing that returned annotations.
C2_Witness ==
    \E f \in Paths : SecondRun(f) /\ DOMAIN proc[f].docs # {} /\ proc[f].ngen = 0

\* C3: the store holds at most one row per fingerprint, and a get returns the
\* value of the last completed set for it.
C3_LastWriteWins ==
    /\ \A i, j \in 1..Len(store) : store[i].hash = store[j].hash => i = j
    /\ \A k \in DOMAIN lastSet : Cache_get(store, k) = Some(lastSet[k])

\* A fingerprint set twice, with two texts, and read back.
C3_Witness ==
    \E k \in overwritten : Len(RowsOf(store, k)) = 1 /\ Cache_get(store, k) = Some(lastSet[k])

\* C10 as stated: a failing Cache.get or Cache.set never makes process_file
\* raise.
C10_CacheFailureNotFatal == \A f \in Paths : proc[f].err # "cache"

\* C4 as stated: at every point of update_docstrings_in_file, cancelled or
\* failing or not, the file holds the complete original text or the complete
\* new text.
C4_AtomicRewrite ==
    upd.pc # "none" =>
        disk[upd.path] \in {orig, update_docstrings_in_file(orig, upd.modifications)}

\* The definitions of a tree in pre-order.
RECURSIVE DefNodes(_)
DefNodes(body) ==
    IF body = <<>> THEN <<>>
    ELSE (IF IsDefNode(Head(body)) THEN <<Head(body)>> \o DefNodes(Head(body).body)
          ELSE <<>>) \o DefNodes(Tail(body))

NodeText(n) == CodegenBody(<<n>>, 0)

\* The trees before and after the visit of a call that reached its write.
OldTree == parse_module(upd.source).body
NewTree == VisitBody(OldTree, upd.modifications)

\* C5 as stated: of the definitions that share a name, only the first in
\* pre-order is edited; every later one is emitted as it was.
C5_OnlyFirstOccurrenceEdited ==
    upd.pc = "ready" =>
        LET old == DefNodes(OldTree)
            new == DefNodes(NewTree)
        IN  /\ Len(new) = Len(old)
            /\ \A i \in 1..Len(old) :
                  (\E j \in 1..(i - 1) : old[j].name = old[i].name) =>
                      NodeText(new[i]) = NodeText(old[i])

\* The lines of a tree outside the documentation blocks of the definitions
\* named in names: of a block only the comment lines above it and the comment
\* after it are kept.  In the tree before the rewrite the block is a first
\* statement that is one string literal; in the tree after it, the first
\* statement.
RECURSIVE FrameLines(_, _, _, _, _)
FrameLines(body, ind, names, after, first) ==
    IF body = <<>> THEN <<>>
    ELSE LET n == Head(body)
             block == first /\ n.t = "expr" /\ (after \/ MatchesDocstring(n))
             own == IF block
                    THEN n.lead \o (IF n.cmt = "" THEN <<>> ELSE <<CmtLine(ind, n.cmt)>>)
                    ELSE n.lead \o <<Line(ind, n.t, n.name, n.mark, n.txt, n.cmt)>>
         IN  own \o FrameLines(n.body, ind + 1, names, after, IsDefNode(n) /\ n.name \in names)
                 \o FrameLines(Tail(body), ind, names, after, FALSE)

\* C6 as stated: the rewrite changes nothing but the documentation blocks of
\* the named definitions, and nothing at all under an empty mapping.
C6_OnlyDocBlocksChange ==
    upd.pc = "ready" =>
        /\ FrameLines(NewTree, 0, DOMAIN upd.modifications, TRUE, FALSE)
               = FrameLines(OldTree, 0, DOMAIN upd.modifications, FALSE, FALSE)
        /\ DOMAIN upd.modifications = {} => upd.new_source = upd.source

\* An annotation text without quotes and backslashes.
PlainDoc(doc) == \A i \in 1..Len(doc) : doc[i] = "d"

\* C7 as stated (for plain annotation texts): every named definition ends up
\* with the annotation as its first statement, one statement more than before
\* when it had no docstring and as many as before when it had one; a second
\* rewrite changes nothing.
C7_OneDocBlock ==
    (upd.pc = "ready" /\ \A n \in DOMAIN upd.modifications : PlainDoc(upd.modifications[n])) =>
        LET old == DefNodes(OldTree)
            new == DefNodes(parse_module(upd.new_source).body)
        IN  /\ Len(new) = Len(old)
            /\ \A i \in 1..Len(old) :
                  old[i].name \in DOMAIN upd.modifications =>
                      /\ new[i].body # <<>>
                      /\ IsDocstring(new[i].body[1])
                      /\ StringValue(new[i].body[1].txt) = upd.modifications[old[i].name]
                      /\ Len(new[i].body) =
                             IF IsDocstring(old[i].body[1]) THEN Len(old[i].body)
                             ELSE Len(old[i].body) + 1
            /\ update_docstrings_in_file(upd.new_source, upd.modifications) = upd.new_source

\* C8 as stated: whatever the annotation text, the rewritten file parses and
\* the docstring read back from every named definition is that text.
C8_DelimiterSafe ==
    upd.pc = "ready" =>
        LET module == parse_module(upd.new_source)
            new == DefNodes(module.body)
        IN  /\ module.ok
            /\ \A i \in 1..Len(new) :
                  new[i].name \in DOMAIN upd.modifications =>
                      /\ IsDocstring(new[i].body[1])
                      /\ StringValue(new[i].body[1].txt) = upd.modifications[new[i].name]

\* C9 as stated: two keys are equal exactly when the source and the prompt
\* template they were computed from are equal.
C9_KeysInjective ==
    kout # <<>> => ((kout[1] = kout[2]) <=> (kin[1] = kin[2]))

\* ------------------------------------------------------------------
\* An error message of the gateway, as the model writes it.
IsErrorText(doc) == \E c \in Completions : doc = ErrorPrefix \o c.text

\* The first statement of the module-level definition a name is bound to.
DocOnDisk(text, name) ==
    LET b == Binding(parse_module(text).body, name) IN
    IF b = <<>> \/ b[1].body = <<>> \/ ~IsDocstring(b[1].body[1]) THEN None
    ELSE Some(StringValue(b[1].body[1].txt))

\* Every text a file of the pipeline can hold: the sample files and their
\* rewrites, with what process_file finds in each.
PipelineTexts ==
    PipelineFiles \cup
        {update_docstrings_in_file(t, [n \in S |-> d]) :
            t \in PipelineFiles, S \in (SUBSET {"f", "g"}) \ {{}}, d \in ModelOutputs}
        \cup {update_docstrings_in_file(t, [n \in {"f", "g"} |-> IF n = "f" THEN d ELSE e]) :
                  t \in PipelineFiles, d \in ModelOutputs, e \in ModelOutputs}

KeyOfName == [t \in PipelineTexts |->
                 [n \in {UnitsOfText(t)[i].name : i \in 1..Len(UnitsOfText(t))} |->
                     UnitKey(UnitsOfText(t)[CHOOSE i \in 1..Len(UnitsOfText(t)) :
                                                UnitsOfText(t)[i].name = n])]]

DocstringOf == [t \in PipelineTexts |-> [n \in {"f", "g"} |-> DocOnDisk(t, n)]]

\* C11: generate_doc never raises; an error message it returned is returned
\* in the result of process_file, has been put in the cache under the unit's
\* key and, in write mode, is the unit's docstring in the file; a later call
\* on the unchanged file returns the message again without a generation call
\* (unless a put replaced the key's entry meanwhile).
C11_ErrorTextIsOrdinaryText ==
    \A f \in Paths :
        /\ proc[f].err # "generate"
        /\ proc[f].pc \in {"done", "reported"} =>
               \A n \in DOMAIN proc[f].docs :
                   IsErrorText(proc[f].docs[n]) =>
                       /\ n \in DOMAIN KeyOfName[proc[f].text]
                       /\ KeyOfName[proc[f].text][n] \in DOMAIN lastSet
                       /\ main.write => DocstringOf[disk[f]][n] = Some(proc[f].docs[n])
        /\ SecondRun(f) =>
               \A n \in DOMAIN proc[f].prev.docs :
                   (IsErrorText(proc[f].prev.docs[n])
                        /\ KeyOfName[proc[f].text][n] \notin overwritten) =>
                       /\ proc[f].ngen = 0
                       /\ n \in DOMAIN proc[f].docs
                       /\ proc[f].docs[n] = proc[f].prev.docs[n]

\* A call that returned, from the cache and without generating, the error
\* message an earlier call had returned; and one that wrote an error message
\* into its file.
C11_Witness ==
    /\ \E f \in Paths :
          /\ SecondRun(f)
          /\ proc[f].ngen = 0
          /\ \E n \in DOMAIN proc[f].docs :
                IsErrorText(proc[f].docs[n]) /\ proc[f].prev.docs[n] = proc[f].docs[n]
    /\ \E f \in Paths, n \in {"f", "g"} :
          DocOnDisk(disk[f], n).found /\ IsErrorText(DocOnDisk(disk[f], n).doc)

\* The names a file binds at module level to a marked definition.
MarkedNames(text) ==
    {NameOrder[i] : i \in {j \in 1..Len(NameOrder) :
        LET b == Binding(parse_module(text).body, NameOrder[j]) IN
        b # <<>> /\ b[1].mark # ""}}

\* C12 as stated: whatever keys the configuration lacks, process_file without
\* a cache returns, without raising, a mapping that holds a non-empty
\* annotation for every marked unit of the file.
C12_MissingKeysFallBack ==
    (call.pc \in {"returned", "raised"} /\ ~call.cached) =>
        /\ call.raised = ""
        /\ \A n \in MarkedNames(call.text) :
              n \in DOMAIN call.docs /\ call.docs[n] # <<>>
\* C13 as stated: an I/O error when the rewritten file is persisted is
\* confined to that file: the run goes on to its report.
C13_FailureConfined ==
    \A f \in Paths : proc[f].err = "io" => main.pc \in {"pool", "done"}
\* A pattern names a file: a glob matches every .py file of the directory, any
\* other pattern the file it spells.
Matches(pattern, f) == IsGlob(pattern) \/ RealPath(pattern) = f

\* C14: a run ends at once with exit status 1, no worker started, exactly when
\* its patterns name no file; a run over files that hold no marked unit makes
\* no generation call, is not ended early and reports the empty mapping.
C14_ZeroFilesIsFailure ==
    main.pc # "idle" =>
        /\ main.pc = "exit" <=>
               \A i \in 1..Len(main.patterns), f \in DOMAIN disk :
                   ~Matches(main.patterns[i], f)
        /\ main.pc = "exit" => \A f \in Paths : proc[f].pc = "none"
        /\ (main.pc # "exit" /\ \A f \in Paths : DOMAIN KeyOfName[disk[f]] = {}) =>
               /\ main.pc \in {"pool", "done"}
               /\ main.all_docs = EmptyMap
               /\ \A f \in Paths : proc[f].ngen = 0 /\ proc[f].pc # "raised"

\* A run that named no file, after a run over files without marked units had
\* printed its empty report.
C14_Witness ==
    /\ main.pc = "exit"
    /\ \A f \in Paths : last[f].finished /\ last[f].docs = EmptyMap
MarkedNamesOf == [t \in PipelineTexts |-> MarkedNames(t)]

\* C15: the report of a finished run holds exactly the collected files that
\* bind a marked unit at module level (what discovery yields), each with the mapping its process_file call returned:
\* every marked name of the file, with the text that in write mode is now the
\* unit's docstring.
C15_ReportComplete ==
    main.pc = "done" =>
        \A f \in Paths :
            /\ proc[f].pc = "reported"
            /\ f \in DOMAIN main.all_docs <=> MarkedNamesOf[proc[f].text] # {}
            /\ f \in DOMAIN main.all_docs =>
                   /\ main.all_docs[f] = proc[f].docs
                   /\ DOMAIN main.all_docs[f] = MarkedNamesOf[proc[f].text]
                   /\ main.write =>
                          \A n \in DOMAIN main.all_docs[f] :
                              DocstringOf[disk[f]][n] = Some(main.all_docs[f][n])

\* The report of a write-mode run: one with both files, or one that omits the
\* file without marked units.
C15_Witness ==
    /\ main.pc = "done"
    /\ \/ DOMAIN main.all_docs = Paths
       \/ DOMAIN main.all_docs = {"b.py"}
    /\ \E f \in Paths : f \in DOMAIN main.all_docs /\ main.write
\* C16 as stated: whatever the patterns, no file is handed to two
\* process_file calls, and no two workers are on the same file at once.
C16_OneWorkerPerFile ==
    /\ \A p, q \in cli.files : RealPath(p) = RealPath(q) => p = q
    /\ \A p, q \in cli.running : RealPath(p) = RealPath(q) => p = q
\* C17: process_file returns a mapping with every marked name in either mode;
\* a file's text changes only in write mode, in the one step that ends the
\* call, when every marked unit has its annotation and the mapping is not
\* empty, and it becomes the rewrite of the text under the full mapping.
C17_WriteOnlyAtEnd ==
    [][\A f \in Paths :
          /\ (proc[f].pc = "tail" /\ proc'[f].pc = "done") =>
                 DOMAIN proc'[f].docs = MarkedNamesOf[proc[f].text]
          /\ disk'[f] # disk[f] =>
                 /\ main.write
                 /\ proc[f].pc = "tail" /\ proc'[f].pc = "done"
                 /\ DOMAIN proc[f].docs # {}
                 /\ DOMAIN proc[f].docs = MarkedNamesOf[proc[f].text]
                 /\ disk'[f] = update_docstrings_in_file(disk[f], proc[f].docs)]_vars

\* A call in write mode that has returned and left its file rewritten.
C17_Witness ==
    \E f \in Paths :
        /\ main.write
        /\ proc[f].pc = "done"
        /\ disk[f] # proc[f].text
        /\ DOMAIN proc[f].docs = {"f", "g"}
\* C18 as stated: whenever the generation calls return or fail, the run is
\* never ended before its report and no collected file is left unprocessed.
C18_RunReachesReport ==
    /\ main.pc # "aborted"
    /\ \A f \in Paths : proc[f].pc # "killed"
\* C19: in a run started with the reset, every row of the store was set in
\* this run, so no get returns an annotation of an earlier run, and every
\* marked unit of a file that was processed has been generated in this run.
C19_ResetDiscardsAll ==
    (main.reset /\ main.pc # "idle") =>
        /\ \A i \in 1..Len(store) :
               /\ store[i].hash \in DOMAIN lastSet
               /\ store[i].doc = lastSet[store[i].hash]
        /\ \A f \in Paths :
               proc[f].pc \in {"done", "reported"} =>
                   \A n \in MarkedNamesOf[proc[f].text] :
                       Count(genCalls, KeyOfName[proc[f].text][n]) >= 1

\* A reset run without write mode has ended with its report over a file that
\* an earlier write-mode run, which filled the store, had rewritten.
C19_Witness ==
    /\ main.reset /\ ~main.write /\ main.pc = "done"
    /\ \E f \in Paths :
          /\ disk[f] \notin PipelineFiles
          /\ f \in DOMAIN main.all_docs
          /\ DOMAIN main.all_docs[f] # {}
\* C20 as stated: after a call of process_file in write mode, with the cache,
\* a second call on the rewritten file makes no generation call and leaves
\* the text of the file as the first call left it.
C20_WriteKeepsKeys ==
    (call.pc = "returned" /\ call.calls = 2 /\ call.cached /\ call.first.write) =>
        /\ call.ngen = 0
        /\ disk[CallPath] = call.first.after
====
